---------------------------- MODULE Spec2Model ----------------------------
(* The encrypted, topic-routed RabbitMQ client of the-lanky/go            *)
(* (package lanky_rabbitmq, src/unnamed/part_002) as a state machine:     *)
(* Publish with its retry loop, Listen with its declaration steps and its *)
(* consuming task, the recovery after a handler panic, and Close.         *)
EXTENDS Integers, Sequences, FiniteSets, TLC

(* ------------------------------ bounds ------------------------------- *)

\* The largest value of the type uint (Retries), scaled down from 2^64 - 1.
MaxUint == 3
\* The number of messages the broker receives in one run.
MaxMsgs == 2
\* The number of Listen invocations (the first call and the restarts).
MaxGen == 3
\* The largest length of a payload given to Encrypt.
MaxLen == 4

(* ------------------------- program constants ------------------------- *)

\* retries = NewRetries(1), try = NewRetries(1)
DefaultRetries == 1
\* delay = time.Second * 1, in seconds
DefaultDelay == 1
\* the key length NewLankyRMQ asks of the trimmed secret
SecretLen == 24
\* delay = time.Second * 5 of consumerFn, in seconds
DefaultRejoin == 5
\* The largest value of a byte, scaled down from 255 to four bits.
MaxByte == 15
\* The largest value of a base64 digit, scaled down from 63 to three bits:
\* three bytes make four digits.
MaxDigit == 7
\* The base64 padding character "=".
Pad == 8
\* aes.BlockSize, the length of c.size, scaled down from 16.
BlockSize == 2

Callers == {"p1", "p2"}
Gens == 1..MaxGen
MsgIds == 1..MaxMsgs
Topics == {"orders", "payments"}
\* A wire body is base64 text ("b64") or text that base64 cannot decode.
Bodies == {"b64", "junk"}
\* The registries the application passes to Listen.
Registries == {{"orders"}, {"orders", "payments"}}
\* Retries and DelayRetries of a LankyPublisherOption; NIL is a nil option.
\* Arg is the int the caller gave to NewRetries.
NIL == [nil |-> TRUE, Arg |-> 0, Retries |-> 0, DelayRetries |-> 0]
\* A time.Duration is a signed integer.
OptDelays == {-1, 0, 2}
\* The ints a caller gives to NewRetries.
RetryInts == -1..MaxUint
\* Retries(retries): the conversion of an int to the unsigned type wraps
NewRetries(n) == n % (MaxUint + 1)
Options ==
  {NIL} \cup
  {[nil |-> FALSE, Arg |-> n, Retries |-> NewRetries(n), DelayRetries |-> d] :
     n \in RetryInts, d \in OptDelays}
\* The cap on the transport sends of one call that keeps the model finite.
MaxSends == MaxUint + 2
\* A string as the blanks it starts with, the characters between its first
\* and its last non-blank character, and the blanks it ends with.
Blank == [lead |-> 1, core |-> 0, trail |-> 0]
Empty == [lead |-> 0, core |-> 0, trail |-> 0]
Filled == [lead |-> 0, core |-> 1, trail |-> 0]
\* The values of conf.Dsn, conf.ExchangeName, conf.ExchangeQueue and
\* conf.ExchangeType, and the values of conf.Secret.
Fields == {Empty, Blank, Filled}
Secrets ==
  [lead : 0..1, core : {0, SecretLen - 1, SecretLen, SecretLen + 1}, trail : 0..1]
Confs ==
  [Dsn : Fields, Secret : Secrets, ExchangeName : Fields, ExchangeQueue : Fields,
   ExchangeType : Fields]
\* len(s) and strings.TrimSpace(s)
StrLen(s) == s.lead + s.core + s.trail
TrimSpace(s) == [lead |-> 0, core |-> s.core, trail |-> 0]
\* The configuration of a constructed client whose secret has n characters.
ClientConf(n) ==
  [Dsn |-> Filled, Secret |-> [lead |-> 0, core |-> SecretLen, trail |-> n - SecretLen],
   ExchangeName |-> Filled, ExchangeQueue |-> Filled, ExchangeType |-> Filled]
\* conf.RejoinDelay: unset (0) or set, in seconds.
RejoinDelays == {0, 3}
\* topic and messageId of a task before its first delivery.
NoDelivery == [topic |-> "", id |-> 0]

VARIABLES
  cancelAt,   \* 0, or 1 + the sends the call had made when its ctx was cancelled
  ciph,       \* the cipher instances: secret and size of each lc
  plain,      \* the payload given to Encrypt
  enc,        \* the instance that encrypted, and what Encrypt returned
  dec,        \* the instance that decrypted, and what Decrypt returned
  conf,       \* the conf argument of NewLankyRMQ
  npc,        \* position in NewLankyRMQ
  dialed,     \* amqp091.Dial was called
  secretLen,  \* length of the secret the client's cipher holds (0: no client)
  rejoinDelay,\* conf.RejoinDelay of the constructed client, in seconds
  fatal,      \* log.Fatal was called: the process has exited
  \* ---- Publish, one call per caller
  ppc,        \* position of the caller in Publish
  retries,    \* local retries
  delay,      \* local delay
  try,        \* local try
  success,    \* local success
  pmu,        \* local mu of the call: TRUE when locked
  sends,      \* PublishWithContext calls the transport has seen from the call
  gap,        \* the sleep of the call since its last transport send (0: none)
  option,     \* the option argument of the call
  uids,       \* number of ids uuid.New() has generated
  uid,        \* local uid
  sentIds,    \* the MessageId values the transport has seen from the call
  attempts,   \* loop iterations of the call that reached the encryption
  \* ---- Listen
  consumers,  \* per invocation: the registry passed to Listen (its topics)
  parent,     \* per invocation: the task whose recovery called it (0: the
              \* application)
  running,    \* per task: topic and messageId, recorded for the recovery
  panicLog,   \* per task: the id and topic its recovery logged
  slept,      \* per task: the time its recovery slept before Listen
  lpc,        \* position of each Listen invocation
  toBind,     \* topics the bind loop of the invocation has still to bind
  bound,      \* topics the invocation has called QueueBind for
  declErr,    \* the steps of the invocation that returned an error
  sub,        \* the invocation's Consume subscription is registered
  stream,     \* the deliveries buffered in the invocation's messages channel
  tpc,        \* position of the invocation's consuming task
  mu,         \* local mu of the invocation: TRUE when locked
  cur,        \* msg of the range loop (0: none)
  lastLog,    \* the last outcome the task logged
  handled,    \* the Consume calls made on handlers, in order
  \* ---- broker
  msgs,       \* the messages routed to the queue so far
  queue,      \* ids of the messages the broker still holds
  dgen,       \* per message: consuming tasks started when it was delivered
  \* ---- Close
  cpc,        \* position of the Close call
  chanClose,  \* outcome of channel.Close
  connClose   \* outcome of connection.Close

\* What a Publish call fixes at its start.
callVars == <<option, uids, uid>>
pubVars == <<ppc, retries, delay, try, success, pmu, sends, gap, callVars, sentIds,
            attempts>>
recVars == <<parent, running, panicLog, slept>>
lisVars == <<recVars, consumers, lpc, toBind, bound, declErr, sub, stream, tpc, mu, cur,
             lastLog, handled>>
brokerVars == <<msgs, queue, dgen>>
closeVars == <<cpc, chanClose, connClose>>
\* What no step of Publish, Listen or Close changes.
newVars == <<conf, npc, dialed>>
cipVars == <<ciph, plain, enc, dec>>
fixedVars == <<secretLen, rejoinDelay, newVars, cipVars, cancelAt>>
vars == <<fixedVars, fatal, pubVars, lisVars, brokerVars, closeVars>>

(* ------------------------------ cipher ------------------------------- *)

\* aes.NewCipher accepts keys of 16, 24 or 32 bytes only.
NewCipherErr(n) == n \notin {16, 24, 32}

\* Encrypt fails only when aes.NewCipher rejects the secret.
EncryptErr == NewCipherErr(secretLen)

\* Decrypt fails when aes.NewCipher rejects the secret or base64 decoding fails.
DecryptErr(body) == NewCipherErr(secretLen) \/ body = "junk"

Digits == 0..MaxDigit
Min(a, b) == IF a <= b THEN a ELSE b

\* The exclusive or of two bytes, bit by bit.
Bit(x, w) == (x \div w) % 2
Xor(a, b) ==
    ((Bit(a, 1) + Bit(b, 1)) % 2)
  + ((Bit(a, 2) + Bit(b, 2)) % 2) * 2
  + ((Bit(a, 4) + Bit(b, 4)) % 2) * 4
  + ((Bit(a, 8) + Bit(b, 8)) % 2) * 8

\* The AES block function under a key: any function of the key and the
\* block. Two keys can give blocks that agree in a byte.
BlockEncrypt(key, blk) ==
  [i \in 1..BlockSize |->
     (blk[i] * key + blk[(i % BlockSize) + 1] * (key + 2) + i) % (MaxByte + 1)]

\* cipher.NewCFBEncrypter / NewCFBDecrypter and XORKeyStream: each block of
\* the data is xored with the encryption of the previous ciphertext block,
\* the first one with the encryption of the iv.
RECURSIVE XORKeyStream(_, _, _, _)
XORKeyStream(key, prev, data, decrypting) ==
  IF data = <<>> THEN <<>>
  ELSE LET n == Min(BlockSize, Len(data))
           ks == BlockEncrypt(key, prev)
           blk == SubSeq(data, 1, n)
           out == [i \in 1..n |-> Xor(blk[i], ks[i])]
           fed == IF decrypting THEN blk ELSE out
       IN out \o XORKeyStream(key, fed, SubSeq(data, n + 1, Len(data)), decrypting)

\* A mutant of encode: base64.RawStdEncoding, which writes no padding.
RECURSIVE encodeRaw(_)
encodeRaw(src) ==
  IF src = <<>> THEN <<>>
  ELSE IF Len(src) = 1
    THEN LET n == src[1] * 4 IN <<n \div 8, n % 8>>
  ELSE IF Len(src) = 2
    THEN LET n == (src[1] * 16 + src[2]) * 2
         IN <<n \div 64, (n \div 8) % 8, n % 8>>
  ELSE LET n == src[1] * 256 + src[2] * 16 + src[3]
       IN <<n \div 512, (n \div 64) % 8, (n \div 8) % 8, n % 8>>
            \o encodeRaw(SubSeq(src, 4, Len(src)))

\* base64.StdEncoding.EncodeToString: three bytes give four digits; a last
\* group of one or two bytes is filled with zero bits and padded with "=".
RECURSIVE encode(_)
encode(src) ==
  IF src = <<>> THEN <<>>
  ELSE IF Len(src) = 1
    THEN LET n == src[1] * 4 IN <<n \div 8, n % 8, Pad, Pad>>
  ELSE IF Len(src) = 2
    THEN LET n == (src[1] * 16 + src[2]) * 2
         IN <<n \div 64, (n \div 8) % 8, n % 8, Pad>>
  ELSE LET n == src[1] * 256 + src[2] * 16 + src[3]
       IN <<n \div 512, (n \div 64) % 8, (n \div 8) % 8, n % 8>>
            \o encode(SubSeq(src, 4, Len(src)))

\* The result of a decoding or of a decryption.
Failed == [err |-> TRUE, val |-> <<>>]
Ok(v) == [err |-> FALSE, val |-> v]

\* A mutant of decode: base64.RawStdEncoding, which rejects padding.
RECURSIVE decodeRaw(_)
decodeRaw(str) ==
  IF str = <<>> THEN Ok(<<>>)
  ELSE IF \E i \in 1..Min(4, Len(str)) : str[i] \notin Digits THEN Failed
  ELSE IF Len(str) = 1 THEN Failed
  ELSE IF Len(str) = 2 THEN Ok(<<(str[1] * 8 + str[2]) \div 4>>)
  ELSE IF Len(str) = 3
    THEN LET n == (str[1] * 64 + str[2] * 8 + str[3]) \div 2
         IN Ok(<<n \div 16, n % 16>>)
  ELSE LET n == str[1] * 512 + str[2] * 64 + str[3] * 8 + str[4]
           rest == decodeRaw(SubSeq(str, 5, Len(str)))
       IN IF rest.err THEN Failed
          ELSE Ok(<<n \div 256, (n \div 16) % 16, n % 16>> \o rest.val)

\* base64.StdEncoding.DecodeString: groups of four characters; padding is
\* allowed, and required, in the last group only; the filling bits of the
\* last group are dropped.
RECURSIVE decode(_)
decode(str) ==
  IF str = <<>> THEN Ok(<<>>)
  ELSE IF Len(str) < 4 THEN Failed
  ELSE IF str[1] \notin Digits \/ str[2] \notin Digits THEN Failed
  ELSE IF str[3] = Pad
    THEN IF str[4] = Pad /\ Len(str) = 4
           THEN Ok(<<(str[1] * 8 + str[2]) \div 4>>)
           ELSE Failed
  ELSE IF str[3] \notin Digits THEN Failed
  ELSE IF str[4] = Pad
    THEN IF Len(str) = 4
           THEN LET n == (str[1] * 64 + str[2] * 8 + str[3]) \div 2
                IN Ok(<<n \div 16, n % 16>>)
           ELSE Failed
  ELSE IF str[4] \notin Digits THEN Failed
  ELSE LET n == str[1] * 512 + str[2] * 64 + str[3] * 8 + str[4]
           rest == decode(SubSeq(str, 5, Len(str)))
       IN IF rest.err THEN Failed
          ELSE Ok(<<n \div 256, (n \div 16) % 16, n % 16>> \o rest.val)

\* lc.Encrypt of the instance c = [len, key, size]
Encrypt(c, data) ==
  IF NewCipherErr(c.len) THEN Failed
  ELSE Ok(encode(XORKeyStream(c.key, c.size, data, FALSE)))

\* lc.Decrypt
Decrypt(c, encryption) ==
  IF NewCipherErr(c.len) THEN Failed
  ELSE LET cipherText == decode(encryption)
       IN IF cipherText.err THEN Failed
          ELSE Ok(XORKeyStream(c.key, c.size, cipherText.val, TRUE))

\* The cipher instances of a run, the secrets (length and content) and the
\* random blocks NewLankyCrypto gives them.
Insts == {"a", "b"}
CipSecrets ==
  {[len |-> SecretLen, key |-> 1], [len |-> SecretLen, key |-> 2],
   [len |-> SecretLen + 1, key |-> 3], [len |-> 32, key |-> 4]}
Sizes == {<<0, 0>>, <<7, 12>>}
Ciphers == {[len |-> k.len, key |-> k.key, size |-> v] : k \in CipSecrets, v \in Sizes}
\* The payloads: every length up to MaxLen, bytes from a small set.
RECURSIVE SeqsUpTo(_, _)
SeqsUpTo(S, n) ==
  IF n = 0 THEN {<<>>}
  ELSE LET shorter == SeqsUpTo(S, n - 1)
       IN shorter \cup {Append(q, x) : q \in {r \in shorter : Len(r) = n - 1}, x \in S}
Payloads == SeqsUpTo({0, 9, MaxByte}, MaxLen)
\* Wire bodies that no Encrypt has written.
ForeignTexts == {<<1>>, <<1, 2, Pad, 3>>, <<Pad, Pad, Pad, Pad>>, <<1, 2, 3, 4, 5, 6, 7, Pad>>}
NotDone == [by |-> "none", err |-> FALSE, val |-> <<>>]
By(i, r) == [by |-> i, err |-> r.err, val |-> r.val]

\* No cipher operation has been made.
CipIdle ==
  /\ plain = <<>>
  /\ enc = NotDone
  /\ dec = NotDone

(* ------------------------------- Init -------------------------------- *)

\* Nothing has been called on the client.
ClientIdle ==
  /\ fatal = FALSE
  /\ cancelAt = [p \in Callers |-> 0]
  /\ ppc = [p \in Callers |-> "idle"]
  /\ retries = [p \in Callers |-> DefaultRetries]
  /\ delay = [p \in Callers |-> DefaultDelay]
  /\ try = [p \in Callers |-> DefaultRetries]
  /\ success = [p \in Callers |-> FALSE]
  /\ pmu = [p \in Callers |-> FALSE]
  /\ sends = [p \in Callers |-> 0]
  /\ gap = [p \in Callers |-> 0]
  /\ option = [p \in Callers |-> NIL]
  /\ uids = 0
  /\ uid = [p \in Callers |-> 0]
  /\ sentIds = [p \in Callers |-> {}]
  /\ attempts = [p \in Callers |-> 0]
  /\ consumers = [g \in Gens |-> {}]
  /\ parent = [g \in Gens |-> 0]
  /\ running = [g \in Gens |-> NoDelivery]
  /\ panicLog = [g \in Gens |-> NoDelivery]
  /\ slept = [g \in Gens |-> 0]
  /\ lpc = [g \in Gens |-> "none"]
  /\ toBind = [g \in Gens |-> {}]
  /\ bound = [g \in Gens |-> {}]
  /\ declErr = [g \in Gens |-> {}]
  /\ sub = [g \in Gens |-> FALSE]
  /\ stream = [g \in Gens |-> <<>>]
  /\ tpc = [g \in Gens |-> "none"]
  /\ mu = [g \in Gens |-> FALSE]
  /\ cur = [g \in Gens |-> 0]
  /\ lastLog = [g \in Gens |-> "none"]
  /\ handled = <<>>
  /\ msgs = <<>>
  /\ queue = <<>>
  /\ dgen = [m \in MsgIds |-> 0]
  /\ cpc = "idle"
  /\ chanClose = "untried"
  /\ connClose = "untried"

\* NewLankyRMQ accepts a secret whose trimmed length is 24 and hands the
\* untrimmed secret to the cipher: one surrounding blank gives length 25.
Init ==
  /\ secretLen \in {SecretLen, SecretLen + 1}
  /\ rejoinDelay \in RejoinDelays
  /\ conf = ClientConf(secretLen)
  /\ npc = "returned"
  /\ dialed = TRUE
  /\ ciph = [i \in Insts |-> [len |-> secretLen, key |-> 1, size |-> <<0, 0>>]]
  /\ CipIdle
  /\ ClientIdle

(* ---------------------------- NewLankyRMQ ---------------------------- *)

\* The application is about to call NewLankyRMQ(conf, log).
NewInit ==
  /\ conf \in Confs
  /\ npc = "dsn"
  /\ dialed = FALSE
  /\ secretLen = 0
  /\ rejoinDelay \in RejoinDelays
  /\ ciph = [i \in Insts |-> [len |-> 0, key |-> 1, size |-> <<0, 0>>]]
  /\ CipIdle
  /\ ClientIdle

\* What NewLankyRMQ does not touch.
clientVars ==
  <<rejoinDelay, pubVars, lisVars, brokerVars, closeVars, cipVars, cancelAt>>

\* if <bad> { log.Fatal(...) }: the process exits, or the next check is made
NewCheck(step, bad, next) ==
  /\ ~fatal /\ npc = step
  /\ IF bad THEN fatal' = TRUE /\ UNCHANGED npc
            ELSE npc' = next /\ UNCHANGED fatal
  /\ UNCHANGED <<conf, dialed, secretLen, clientVars>>

NewCheckDsn == NewCheck("dsn", StrLen(TrimSpace(conf.Dsn)) = 0, "secret")

NewCheckSecretEmpty ==
  NewCheck("secret", StrLen(TrimSpace(conf.Secret)) = 0, "secretLen")

NewCheckSecretLen ==
  NewCheck("secretLen", StrLen(TrimSpace(conf.Secret)) # SecretLen, "name")

NewCheckExchangeName ==
  NewCheck("name", StrLen(TrimSpace(conf.ExchangeName)) = 0, "queue")

NewCheckExchangeQueue ==
  NewCheck("queue", StrLen(TrimSpace(conf.ExchangeQueue)) = 0, "type")

NewCheckExchangeType ==
  NewCheck("type", StrLen(TrimSpace(conf.ExchangeType)) = 0, "dial")

\* amqp091.Dial(conf.Dsn): the broker is reached or not
NewDial ==
  /\ ~fatal /\ npc = "dial"
  /\ dialed' = TRUE
  /\ \/ npc' = "channel" /\ UNCHANGED fatal
     \/ fatal' = TRUE /\ UNCHANGED npc
  /\ UNCHANGED <<conf, secretLen, clientVars>>

\* con.Channel()
NewChannel ==
  /\ ~fatal /\ npc = "channel"
  /\ \/ npc' = "crypto" /\ UNCHANGED fatal
     \/ fatal' = TRUE /\ UNCHANGED npc
  /\ UNCHANGED <<conf, dialed, secretLen, clientVars>>

\* crp := lcp.NewLankyCrypto(conf.Secret), and the client is returned
NewCrypto ==
  /\ ~fatal /\ npc = "crypto"
  /\ secretLen' = StrLen(conf.Secret)
  /\ npc' = "returned"
  /\ UNCHANGED <<conf, dialed, fatal, clientVars>>

NewNext ==
  \/ NewCheckDsn
  \/ NewCheckSecretEmpty
  \/ NewCheckSecretLen
  \/ NewCheckExchangeName
  \/ NewCheckExchangeQueue
  \/ NewCheckExchangeType
  \/ NewDial
  \/ NewChannel
  \/ NewCrypto

\* The construction of a client.
NewSpec == NewInit /\ [][NewNext]_vars

(* ------------------------- cipher operations ------------------------- *)

\* Two instances made by NewLankyCrypto, and a payload.
CipInit ==
  /\ ciph \in [Insts -> Ciphers]
  /\ plain \in Payloads
  /\ enc = NotDone
  /\ dec = NotDone
  /\ secretLen = SecretLen
  /\ rejoinDelay = 0
  /\ conf = ClientConf(secretLen)
  /\ npc = "returned"
  /\ dialed = TRUE
  /\ ClientIdle

\* What the cipher operations do not touch.
noCipVars ==
  <<secretLen, rejoinDelay, newVars, fatal, pubVars, lisVars, brokerVars, closeVars,
    cancelAt>>

\* Instance i encrypts the payload.
CipEncrypt(i) ==
  /\ enc.by = "none"
  /\ enc' = By(i, Encrypt(ciph[i], plain))
  /\ UNCHANGED <<ciph, plain, dec, noCipVars>>

\* Instance j decrypts what Encrypt returned (the empty string on error).
CipDecrypt(j) ==
  /\ enc.by \in Insts
  /\ dec.by = "none"
  /\ dec' = By(j, Decrypt(ciph[j], enc.val))
  /\ UNCHANGED <<ciph, plain, enc, noCipVars>>

\* Instance j decrypts a wire body that no instance has written.
CipDecryptForeign(j) ==
  /\ enc.by = "none"
  /\ \E t \in ForeignTexts :
       /\ enc' = [by |-> "wire", err |-> FALSE, val |-> t]
       /\ dec' = By(j, Decrypt(ciph[j], t))
  /\ UNCHANGED <<ciph, plain, noCipVars>>

CipNext ==
  \E i \in Insts :
    \/ CipEncrypt(i)
    \/ CipDecrypt(i)
    \/ CipDecryptForeign(i)

\* Encrypt and Decrypt on two cipher instances.
CipSpec == CipInit /\ [][CipNext]_vars

(* ------------------------------ Publish ------------------------------ *)

\* if option != nil { if rtr > 0 ...; if dl > 0 ... }
ResolveRetries(o) == IF ~o.nil /\ o.Retries > 0 THEN o.Retries ELSE DefaultRetries
ResolveDelay(o) ==
  IF ~o.nil /\ o.DelayRetries > 0 THEN o.DelayRetries ELSE DefaultDelay

\* A mutant of MessageId: every attempt gets an id of its own.
MessageIdPerAttempt(p) == uid[p] * (MaxUint + 1) + try[p]

\* MessageId: uid in the amqp.Publishing
MessageId(p) == uid[p]

\* try++ on a uint
Inc(n) == (n + 1) % (MaxUint + 1)

\* A mutant of LoopCond: the loop also stops when ctx is cancelled.
LoopCondCtx(p) == try[p] <= retries[p] /\ ~success[p] /\ cancelAt[p] = 0

\* A mutant of LoopCond: the loop forgets to stop on success.
LoopCondNoSuccess(p) == try[p] <= retries[p]

\* the for statement's condition: try <= retries && !success
LoopCond(p) == try[p] <= retries[p] /\ ~success[p]

PublishCall(p) ==
  /\ ~fatal /\ ppc[p] = "idle"
  /\ \E o \in Options :
       /\ retries' = [retries EXCEPT ![p] = ResolveRetries(o)]
       /\ delay' = [delay EXCEPT ![p] = ResolveDelay(o)]
       /\ option' = [option EXCEPT ![p] = o]
  /\ uids' = uids + 1
  /\ uid' = [uid EXCEPT ![p] = uids + 1]
  /\ try' = [try EXCEPT ![p] = DefaultRetries]
  /\ success' = [success EXCEPT ![p] = FALSE]
  /\ ppc' = [ppc EXCEPT ![p] = "lock"]
  /\ UNCHANGED <<pmu, sends, gap, sentIds, attempts>>
  /\ UNCHANGED <<fixedVars, fatal, lisVars, brokerVars, closeVars>>

PublishLock(p) ==
  /\ ~fatal /\ ppc[p] = "lock"
  /\ ~pmu[p]
  /\ pmu' = [pmu EXCEPT ![p] = TRUE]
  /\ ppc' = [ppc EXCEPT ![p] = "encrypt"]
  /\ UNCHANGED <<retries, delay, try, success, sends, gap, callVars, sentIds,
                 attempts>>
  /\ UNCHANGED <<fixedVars, fatal, lisVars, brokerVars, closeVars>>

PublishEncrypt(p) ==
  /\ ~fatal /\ ppc[p] = "encrypt"
  /\ IF EncryptErr
       THEN /\ try' = [try EXCEPT ![p] = Inc(try[p])]
            /\ ppc' = [ppc EXCEPT ![p] = "sleepEncrypt"]
       ELSE /\ ppc' = [ppc EXCEPT ![p] = "send"]
            /\ UNCHANGED try
  /\ attempts' = [attempts EXCEPT ![p] = Min(attempts[p] + 1, MaxSends)]
  /\ UNCHANGED <<retries, delay, success, pmu, sends, gap, callVars, sentIds>>
  /\ UNCHANGED <<fixedVars, fatal, lisVars, brokerVars, closeVars>>

\* time.Sleep(delay); mu.Unlock(); continue
PublishSleepEncrypt(p) ==
  /\ ~fatal /\ ppc[p] = "sleepEncrypt"
  /\ gap' = [gap EXCEPT ![p] = delay[p]]
  /\ pmu' = [pmu EXCEPT ![p] = FALSE]
  /\ ppc' = [ppc EXCEPT ![p] = "cond"]
  /\ UNCHANGED <<retries, delay, try, success, sends, callVars, sentIds, attempts>>
  /\ UNCHANGED <<fixedVars, fatal, lisVars, brokerVars, closeVars>>

\* c.channel.PublishWithContext(...) returns nil
PublishSendOk(p) ==
  /\ ~fatal /\ ppc[p] = "send"
  /\ sends[p] < MaxSends
  /\ sends' = [sends EXCEPT ![p] = sends[p] + 1]
  /\ gap' = [gap EXCEPT ![p] = 0]
  /\ success' = [success EXCEPT ![p] = TRUE]
  /\ ppc' = [ppc EXCEPT ![p] = "unlock"]
  /\ sentIds' = [sentIds EXCEPT ![p] = sentIds[p] \cup {MessageId(p)}]
  /\ UNCHANGED <<retries, delay, try, pmu, callVars, attempts>>
  /\ UNCHANGED <<fixedVars, fatal, lisVars, brokerVars, closeVars>>

\* c.channel.PublishWithContext(...) returns an error
PublishSendFail(p) ==
  /\ ~fatal /\ ppc[p] = "send"
  /\ sends[p] < MaxSends
  /\ sends' = [sends EXCEPT ![p] = sends[p] + 1]
  /\ gap' = [gap EXCEPT ![p] = 0]
  /\ try' = [try EXCEPT ![p] = Inc(try[p])]
  /\ ppc' = [ppc EXCEPT ![p] = "sleepSend"]
  /\ sentIds' = [sentIds EXCEPT ![p] = sentIds[p] \cup {MessageId(p)}]
  /\ UNCHANGED <<retries, delay, success, pmu, callVars, attempts>>
  /\ UNCHANGED <<fixedVars, fatal, lisVars, brokerVars, closeVars>>

\* time.Sleep(delay) after a failed send
PublishSleepSend(p) ==
  /\ ~fatal /\ ppc[p] = "sleepSend"
  /\ gap' = [gap EXCEPT ![p] = delay[p]]
  /\ ppc' = [ppc EXCEPT ![p] = "unlock"]
  /\ UNCHANGED <<retries, delay, try, success, pmu, sends, callVars, sentIds,
                 attempts>>
  /\ UNCHANGED <<fixedVars, fatal, lisVars, brokerVars, closeVars>>

\* mu.Unlock() at the end of the loop body
PublishUnlock(p) ==
  /\ ~fatal /\ ppc[p] = "unlock"
  /\ pmu' = [pmu EXCEPT ![p] = FALSE]
  /\ ppc' = [ppc EXCEPT ![p] = "cond"]
  /\ UNCHANGED <<retries, delay, try, success, sends, gap, callVars, sentIds,
                 attempts>>
  /\ UNCHANGED <<fixedVars, fatal, lisVars, brokerVars, closeVars>>

\* ok = try <= retries && !success, then the next iteration
PublishAgain(p) ==
  /\ ~fatal /\ ppc[p] = "cond"
  /\ LoopCond(p)
  /\ ppc' = [ppc EXCEPT ![p] = "lock"]
  /\ UNCHANGED <<retries, delay, try, success, pmu, sends, gap, callVars, sentIds,
                 attempts>>
  /\ UNCHANGED <<fixedVars, fatal, lisVars, brokerVars, closeVars>>

\* the loop ends and Publish returns (it has no result)
PublishReturn(p) ==
  /\ ~fatal /\ ppc[p] = "cond"
  /\ ~LoopCond(p)
  /\ ppc' = [ppc EXCEPT ![p] = "done"]
  /\ UNCHANGED <<retries, delay, try, success, pmu, sends, gap, callVars, sentIds,
                 attempts>>
  /\ UNCHANGED <<fixedVars, fatal, lisVars, brokerVars, closeVars>>

PubNext ==
  \E p \in Callers :
    \/ PublishCall(p)
    \/ PublishLock(p)
    \/ PublishEncrypt(p)
    \/ PublishSleepEncrypt(p)
    \/ PublishSendOk(p)
    \/ PublishSendFail(p)
    \/ PublishSleepSend(p)
    \/ PublishUnlock(p)
    \/ PublishAgain(p)
    \/ PublishReturn(p)

PubSpec == Init /\ [][PubNext]_vars

\* The caller cancels the ctx it gave to Publish while the call is running.
\* Publish hands a child of that ctx to PublishWithContext only.  One ctx is
\* cancelled in a run.
CtxCancel(p) ==
  /\ ~fatal
  /\ ppc[p] \notin {"idle", "done"}
  /\ \A q \in Callers : cancelAt[q] = 0
  /\ cancelAt' = [cancelAt EXCEPT ![p] = sends[p] + 1]
  /\ UNCHANGED <<secretLen, rejoinDelay, newVars, cipVars>>
  /\ UNCHANGED <<fatal, pubVars, lisVars, brokerVars, closeVars>>

\* Publish calls whose ctx the caller may cancel.
CtxNext == PubNext \/ \E p \in Callers : CtxCancel(p)
\* The client of CtxSpec has no configured rejoin delay.
CtxInit == Init /\ rejoinDelay = 0
CtxSpec == CtxInit /\ [][CtxNext]_vars

(* ------------------------------ broker ------------------------------- *)

\* A mutant of AutoAck: the subscription asks for explicit acknowledgements.
ManualAck == FALSE

\* the autoAck argument of c.channel.Consume
AutoAck == TRUE

ChannelOpen == chanClose # "ok"

\* The tasks started so far.
Started == {g \in Gens : tpc[g] # "none"}

\* A publisher's message is routed to the queue.
Arrive ==
  /\ ~fatal
  /\ Len(msgs) < MaxMsgs
  /\ \E t \in Topics, b \in Bodies :
       msgs' = Append(msgs, [topic |-> t, body |-> b])
  /\ queue' = Append(queue, Len(msgs) + 1)
  /\ UNCHANGED dgen
  /\ UNCHANGED <<fixedVars, fatal, pubVars, lisVars, closeVars>>

\* The broker pushes the head of the queue to one of the subscriptions of the
\* channel; with autoAck the message leaves the queue as it is pushed.
Deliver(g) ==
  /\ ~fatal
  /\ ChannelOpen
  /\ sub[g]
  /\ queue # <<>>
  /\ Len(stream[g]) < MaxMsgs
  /\ stream' = [stream EXCEPT ![g] = Append(stream[g], Head(queue))]
  /\ queue' = IF AutoAck THEN Tail(queue) ELSE queue
  /\ dgen' = [dgen EXCEPT ![Head(queue)] = Cardinality(Started)]
  /\ UNCHANGED msgs
  /\ UNCHANGED <<recVars, consumers, lpc, toBind, bound, declErr, sub, tpc, mu, cur, lastLog,
                 handled>>
  /\ UNCHANGED <<fixedVars, fatal, pubVars, closeVars>>

(* ------------------------------ Listen ------------------------------- *)

\* A mutant of IsFatal: a queue declaration error is logged like a bind error.
IsFatalQueueLogged(step) == step \in {"exchange", "consume"}

\* The steps whose error is logged with Fatalf; a QueueBind error is logged
\* with Errorf and the loop goes on.
IsFatal(step) == step \in {"exchange", "queue", "consume"}

\* The application calls Listen(consumers).
AppListen ==
  /\ ~fatal
  /\ lpc[1] = "none"
  /\ \E r \in Registries : consumers' = [consumers EXCEPT ![1] = r]
  /\ lpc' = [lpc EXCEPT ![1] = "exchange"]
  /\ UNCHANGED <<recVars, toBind, bound, declErr, sub, stream, tpc, mu, cur, lastLog,
                 handled>>
  /\ UNCHANGED <<fixedVars, fatal, pubVars, brokerVars, closeVars>>

\* A declaration step of invocation g ends with an error.
StepFails(g, step, next) ==
  /\ declErr' = [declErr EXCEPT ![g] = declErr[g] \cup {step}]
  /\ IF IsFatal(step)
       THEN fatal' = TRUE /\ UNCHANGED lpc
       ELSE lpc' = [lpc EXCEPT ![g] = next] /\ UNCHANGED fatal

\* c.channel.ExchangeDeclare
ListenExchange(g) ==
  /\ ~fatal
  /\ lpc[g] = "exchange"
  /\ \/ /\ ChannelOpen
        /\ lpc' = [lpc EXCEPT ![g] = "queue"]
        /\ UNCHANGED <<declErr, fatal>>
     \/ StepFails(g, "exchange", "queue")
  /\ UNCHANGED <<recVars, consumers, toBind, bound, sub, stream, tpc, mu, cur, lastLog, handled>>
  /\ UNCHANGED <<fixedVars, pubVars, brokerVars, closeVars>>

\* c.channel.QueueDeclare
ListenQueue(g) ==
  /\ ~fatal
  /\ lpc[g] = "queue"
  /\ \/ /\ ChannelOpen
        /\ lpc' = [lpc EXCEPT ![g] = "bind"]
        /\ UNCHANGED <<declErr, fatal>>
     \/ StepFails(g, "queue", "bind")
  /\ toBind' = [toBind EXCEPT ![g] = consumers[g]]
  /\ UNCHANGED bound
  /\ UNCHANGED <<recVars, consumers, sub, stream, tpc, mu, cur, lastLog, handled>>
  /\ UNCHANGED <<fixedVars, pubVars, brokerVars, closeVars>>

\* one iteration of for topic := range consumers: c.channel.QueueBind
ListenBind(g) ==
  /\ ~fatal
  /\ lpc[g] = "bind"
  /\ \E t \in toBind[g] :
       /\ toBind' = [toBind EXCEPT ![g] = toBind[g] \ {t}]
       /\ bound' = [bound EXCEPT ![g] = bound[g] \cup {t}]
       /\ \/ /\ ChannelOpen
             /\ UNCHANGED <<declErr, fatal, lpc>>
          \/ StepFails(g, "bind", "bind")
  /\ UNCHANGED <<recVars, consumers, sub, stream, tpc, mu, cur, lastLog, handled>>
  /\ UNCHANGED <<fixedVars, pubVars, brokerVars, closeVars>>

\* c.channel.Consume(q.Name, "", true, ...) after the bind loop
ListenConsume(g) ==
  /\ ~fatal
  /\ lpc[g] = "bind"
  /\ toBind[g] = {}
  /\ \/ /\ ChannelOpen
        /\ sub' = [sub EXCEPT ![g] = TRUE]
        /\ lpc' = [lpc EXCEPT ![g] = "spawn"]
        /\ UNCHANGED <<declErr, fatal>>
     \/ StepFails(g, "consume", "spawn") /\ UNCHANGED sub
  /\ UNCHANGED <<recVars, consumers, toBind, bound, stream, tpc, mu, cur, lastLog, handled>>
  /\ UNCHANGED <<fixedVars, pubVars, brokerVars, closeVars>>

\* go consumerFn(), then Listen returns: to the application, or into the
\* deferred function of the task that restarted it, which then ends.
ListenSpawn(g) ==
  /\ ~fatal
  /\ lpc[g] = "spawn"
  /\ lpc' = [lpc EXCEPT ![g] = "returned"]
  /\ tpc' = [h \in Gens |->
               IF h = g THEN "recv"
               ELSE IF h = parent[g] THEN "dead"
               ELSE tpc[h]]
  /\ UNCHANGED <<recVars, consumers, toBind, bound, declErr, sub, stream, mu, cur, lastLog,
                 handled>>
  /\ UNCHANGED <<fixedVars, fatal, pubVars, brokerVars, closeVars>>

(* -------------------------- consuming task -------------------------- *)

\* A mutant of Yielded: the task takes the newest delivery of its stream.
YieldedNewest(g) == stream[g][Len(stream[g])]

\* the delivery that range messages yields: the oldest one of the stream
Yielded(g) == Head(stream[g])

\* for msg := range messages yields the next delivery
TaskRecv(g) ==
  /\ ~fatal
  /\ tpc[g] = "recv"
  /\ stream[g] # <<>>
  /\ cur' = [cur EXCEPT ![g] = Yielded(g)]
  /\ stream' = [stream EXCEPT ![g] = Tail(stream[g])]
  /\ tpc' = [tpc EXCEPT ![g] = "lock"]
  /\ UNCHANGED <<recVars, consumers, lpc, toBind, bound, declErr, sub, mu, lastLog, handled>>
  /\ UNCHANGED <<fixedVars, fatal, pubVars, brokerVars, closeVars>>

\* the channel was closed: the range loop ends and the task returns
TaskRecvClosed(g) ==
  /\ ~fatal
  /\ tpc[g] = "recv"
  /\ stream[g] = <<>>
  /\ ~ChannelOpen
  /\ tpc' = [tpc EXCEPT ![g] = "exit"]
  /\ UNCHANGED <<recVars, consumers, lpc, toBind, bound, declErr, sub, stream, mu, cur, lastLog,
                 handled>>
  /\ UNCHANGED <<fixedVars, fatal, pubVars, brokerVars, closeVars>>

\* topic = msg.RoutingKey; messageId = msg.MessageId
Recorded(g) == [topic |-> msgs[cur[g]].topic, id |-> cur[g]]

\* mu.Lock() at the top of the loop body, then topic and messageId are set
TaskLock(g) ==
  /\ ~fatal
  /\ tpc[g] = "lock"
  /\ ~mu[g]
  /\ mu' = [mu EXCEPT ![g] = TRUE]
  /\ running' = [running EXCEPT ![g] = Recorded(g)]
  /\ tpc' = [tpc EXCEPT ![g] = "route"]
  /\ UNCHANGED <<parent, panicLog, slept, consumers, lpc, toBind, bound, declErr, sub,
                 stream, cur, lastLog, handled>>
  /\ UNCHANGED <<fixedVars, fatal, pubVars, brokerVars, closeVars>>

\* the registry lookup and the decryption: continue without mu.Unlock() when
\* the topic has no consumer or the body does not decrypt, else call Consume
TaskRoute(g) ==
  /\ ~fatal
  /\ tpc[g] = "route"
  /\ IF msgs[cur[g]].topic \notin consumers[g]
       THEN /\ lastLog' = [lastLog EXCEPT ![g] = "notfound"]
            /\ tpc' = [tpc EXCEPT ![g] = "recv"]
            /\ UNCHANGED handled
       ELSE IF DecryptErr(msgs[cur[g]].body)
         THEN /\ lastLog' = [lastLog EXCEPT ![g] = "decryptfail"]
              /\ tpc' = [tpc EXCEPT ![g] = "recv"]
              /\ UNCHANGED handled
         ELSE /\ handled' = Append(handled, [id |-> cur[g], gen |-> g])
              /\ tpc' = [tpc EXCEPT ![g] = "handler"]
              /\ UNCHANGED lastLog
  /\ UNCHANGED <<recVars, consumers, lpc, toBind, bound, declErr, sub, stream, mu, cur>>
  /\ UNCHANGED <<fixedVars, fatal, pubVars, brokerVars, closeVars>>

\* Consume returns nil: log success, mu.Unlock()
HandlerOk(g) ==
  /\ ~fatal
  /\ tpc[g] = "handler"
  /\ lastLog' = [lastLog EXCEPT ![g] = "success"]
  /\ mu' = [mu EXCEPT ![g] = FALSE]
  /\ tpc' = [tpc EXCEPT ![g] = "recv"]
  /\ UNCHANGED <<recVars, consumers, lpc, toBind, bound, declErr, sub, stream, cur, handled>>
  /\ UNCHANGED <<fixedVars, fatal, pubVars, brokerVars, closeVars>>

\* Consume returns an error: log it, continue without mu.Unlock()
HandlerErr(g) ==
  /\ ~fatal
  /\ tpc[g] = "handler"
  /\ lastLog' = [lastLog EXCEPT ![g] = "failed"]
  /\ tpc' = [tpc EXCEPT ![g] = "recv"]
  /\ UNCHANGED <<recVars, consumers, lpc, toBind, bound, declErr, sub, stream, mu, cur, handled>>
  /\ UNCHANGED <<fixedVars, fatal, pubVars, brokerVars, closeVars>>

\* The invocations that have not been made yet, and the next one.
FreeSlots == {h \in Gens : lpc[h] = "none"}
NextSlot == CHOOSE h \in FreeSlots : \A k \in FreeSlots : h <= k

\* A mutant of HandlerPanic: the panic is recovered inside the loop, which
\* goes on, and Listen is started beside it.
HandlerPanicKeepsRunning(g) ==
  /\ ~fatal
  /\ tpc[g] = "handler"
  /\ FreeSlots # {}
  /\ lastLog' = [lastLog EXCEPT ![g] = "panic"]
  /\ panicLog' = [panicLog EXCEPT ![g] = running[g]]
  /\ tpc' = [tpc EXCEPT ![g] = "recv"]
  /\ mu' = [mu EXCEPT ![g] = FALSE]
  /\ lpc' = [lpc EXCEPT ![NextSlot] = "exchange"]
  /\ consumers' = [consumers EXCEPT ![NextSlot] = consumers[g]]
  /\ UNCHANGED <<parent, running, slept, toBind, bound, declErr, sub, stream, cur,
                 handled>>
  /\ UNCHANGED <<fixedVars, fatal, pubVars, brokerVars, closeVars>>

\* Consume panics: the deferred function recovers, logs *id and *topic and
\* starts to sleep
HandlerPanic(g) ==
  /\ ~fatal
  /\ tpc[g] = "handler"
  /\ FreeSlots # {}
  /\ lastLog' = [lastLog EXCEPT ![g] = "panic"]
  /\ panicLog' = [panicLog EXCEPT ![g] = running[g]]
  /\ tpc' = [tpc EXCEPT ![g] = "sleep"]
  /\ UNCHANGED <<parent, running, slept, consumers, lpc, toBind, bound, declErr, sub,
                 stream, mu, cur, handled>>
  /\ UNCHANGED <<fixedVars, fatal, pubVars, brokerVars, closeVars>>

\* The invocations made by the application.
AppCalls == {h \in Gens : lpc[h] # "none" /\ parent[h] = 0}

\* A mutant of RestartRegistry: the restart takes the registry of the latest
\* Listen call of the application.
RestartRegistryLatest(g) ==
  consumers[CHOOSE h \in AppCalls : \A k \in AppCalls : k <= h]

\* c.Listen(consumers): the registry that consumerFn closed over
RestartRegistry(g) == consumers[g]

\* A mutant of RejoinSleep: the configured delay is ignored.
RejoinSleepDefault == DefaultRejoin

\* delay = time.Second * 5; if c.config.RejoinDelay > 0 { delay = ... }
RejoinSleep == IF rejoinDelay > 0 THEN rejoinDelay ELSE DefaultRejoin

\* time.Sleep(delay) is over: c.Listen(consumers) from the deferred function
Rejoin(g) ==
  /\ ~fatal
  /\ tpc[g] = "sleep"
  /\ FreeSlots # {}
  /\ slept' = [slept EXCEPT ![g] = RejoinSleep]
  /\ tpc' = [tpc EXCEPT ![g] = "relisten"]
  /\ lpc' = [lpc EXCEPT ![NextSlot] = "exchange"]
  /\ parent' = [parent EXCEPT ![NextSlot] = g]
  /\ consumers' = [consumers EXCEPT ![NextSlot] = RestartRegistry(g)]
  /\ UNCHANGED <<running, panicLog, toBind, bound, declErr, sub, stream, mu, cur,
                 lastLog, handled>>
  /\ UNCHANGED <<fixedVars, fatal, pubVars, brokerVars, closeVars>>

\* The application calls Listen a second time, with another registry, while
\* the task that its first call started is running.
AppListenAgain ==
  /\ ~fatal
  /\ lpc[1] = "returned"
  /\ tpc[1] \in {"recv", "lock", "route", "handler"}
  /\ AppCalls = {1}
  /\ FreeSlots # {}
  /\ \E r \in Registries \ {consumers[1]} :
       consumers' = [consumers EXCEPT ![NextSlot] = r]
  /\ lpc' = [lpc EXCEPT ![NextSlot] = "exchange"]
  /\ UNCHANGED <<recVars, toBind, bound, declErr, sub, stream, tpc, mu, cur, lastLog,
                 handled>>
  /\ UNCHANGED <<fixedVars, fatal, pubVars, brokerVars, closeVars>>

(* ------------------------------- Close ------------------------------- *)

\* The application calls Close.
AppClose ==
  /\ ~fatal
  /\ cpc = "idle"
  /\ cpc' = "channel"
  /\ UNCHANGED <<chanClose, connClose>>
  /\ UNCHANGED <<fixedVars, fatal, pubVars, lisVars, brokerVars>>

\* A mutant of CloseChannel: a failed channel close is only logged.
CloseChannelLogged ==
  /\ ~fatal
  /\ cpc = "channel"
  /\ \E ok \in BOOLEAN : chanClose' = IF ok THEN "ok" ELSE "err"
  /\ cpc' = "connection"
  /\ UNCHANGED <<connClose, fatal>>
  /\ UNCHANGED <<fixedVars, pubVars, lisVars, brokerVars>>

\* c.channel.Close(): Fatal on an error, else go on to the connection
CloseChannel ==
  /\ ~fatal
  /\ cpc = "channel"
  /\ \/ chanClose' = "ok" /\ cpc' = "connection" /\ UNCHANGED fatal
     \/ chanClose' = "err" /\ fatal' = TRUE /\ UNCHANGED cpc
  /\ UNCHANGED connClose
  /\ UNCHANGED <<fixedVars, pubVars, lisVars, brokerVars>>

\* c.connection.Close(): Fatal on an error, else Close returns
CloseConnection ==
  /\ ~fatal
  /\ cpc = "connection"
  /\ \/ connClose' = "ok" /\ cpc' = "done" /\ UNCHANGED fatal
     \/ connClose' = "err" /\ fatal' = TRUE /\ UNCHANGED cpc
  /\ UNCHANGED chanClose
  /\ UNCHANGED <<fixedVars, pubVars, lisVars, brokerVars>>

(* --------------------------- specifications -------------------------- *)

\* The steps of Listen, of the consuming tasks and of the broker.
LisCore ==
  \/ Arrive
  \/ AppListen
  \/ \E g \in Gens :
       \/ Deliver(g)
       \/ ListenExchange(g)
       \/ ListenQueue(g)
       \/ ListenBind(g)
       \/ ListenConsume(g)
       \/ ListenSpawn(g)
       \/ TaskRecv(g)
       \/ TaskLock(g)
       \/ TaskRoute(g)
       \/ HandlerOk(g)
       \/ HandlerErr(g)
       \/ HandlerPanic(g)
       \/ Rejoin(g)

LisNext ==
  \/ LisCore
  \/ AppClose
  \/ CloseChannel
  \/ CloseConnection
  \/ \E g \in Gens : TaskRecvClosed(g)

\* Listen, the consuming tasks, the broker and Close.
LisSpec == Init /\ [][LisNext]_vars

\* Listen called twice by the application, on a client that is not closed.
Lis2Next == LisCore \/ AppListenAgain
\* The client of Lis2Spec holds a usable secret and no configured rejoin delay.
Lis2Init == Init /\ secretLen = SecretLen /\ rejoinDelay = 0

Lis2Spec == Lis2Init /\ [][Lis2Next]_vars

Next == NewNext \/ CipNext \/ CtxNext \/ LisNext \/ AppListenAgain

Spec == Init /\ [][Next]_vars

(* ------------------------------ claims ------------------------------- *)

Arrived == 1..Len(msgs)

\* The message is buffered in the messages channel of invocation g.
InStream(m, g) == \E i \in DOMAIN stream[g] : stream[g][i] = m

\* The task of invocation g has recovered from a panic, or has ended.
Faulted(g) == tpc[g] \in {"sleep", "relisten", "dead", "exit"}

\* The task of invocation g has taken a delivery and waits in mu.Lock() for
\* the mutex that it holds itself.
SelfBlocked(g) == tpc[g] = "lock" /\ mu[g]

\* The task of invocation g will wait for its own mutex at its next delivery.
Doomed(g) == tpc[g] \in {"recv", "lock"} /\ mu[g]

\* The message is held where no handler will ever get it.
Stranded(m) ==
  \E g \in Gens :
    /\ InStream(m, g) \/ (cur[g] = m /\ tpc[g] = "lock")
    /\ Faulted(g) \/ Doomed(g)

\* C1: a delivery whose topic has no handler is skipped: no handler is
\* invoked for it, no restart follows it, and the task that skipped it can go
\* on to dispatch the deliveries that its stream yields afterwards (it is not
\* left waiting for its own mutex once it has taken the next delivery).
C1_UnregisteredSkipContinues ==
  /\ \A i \in DOMAIN handled :
       msgs[handled[i].id].topic \in consumers[handled[i].gen]
  /\ \A g \in Gens :
       lastLog[g] = "notfound" =>
         /\ tpc[g] \notin {"sleep", "relisten", "dead"}
         /\ ~SelfBlocked(g)

\* C2: once the recovery from a panic is complete (the new task has been
\* started), a well-formed message for a registered topic that the broker
\* delivers is passed to its handler: it is never left where no handler can
\* get it (the safety part of "eventually passed to its handler").
C2_DeliveredAfterRecoveryHandled ==
  \A m \in Arrived :
    (/\ dgen[m] >= 2
     /\ msgs[m].topic \in consumers[1]
     /\ ~DecryptErr(msgs[m].body))
    => ~Stranded(m)

\* C3: with maximum attempts N and a transport whose send fails every time,
\* Publish makes exactly N sends, sleeps the delay between two consecutive
\* sends, and returns.
C3_ExactlyNAttempts ==
  \A p \in Callers :
    (~EncryptErr /\ ~success[p]) =>
      /\ sends[p] <= retries[p]
      /\ ppc[p] = "done" => sends[p] = retries[p]
      /\ (ppc[p] = "send" /\ sends[p] > 0) => gap[p] = delay[p]

\* C4: when the send first succeeds on attempt k <= N, the call has made
\* exactly k sends (k is the value of try) and makes no further attempt.
C4_NoSendAfterSuccess ==
  \A p \in Callers :
    (success[p] /\ sends[p] <= retries[p]) =>
      /\ sends[p] = try[p]
      /\ ppc[p] \in {"unlock", "cond", "done"}

\* A call with N = 3 has returned after its second send succeeded.
C4_Witness ==
  \E p \in Callers :
    ppc[p] = "done" /\ success[p] /\ retries[p] = 3 /\ sends[p] = 2

\* C5: two Publish calls on one client are never both inside an attempt
\* (between mu.Lock() and mu.Unlock()).
C5_PublishMutualExclusion ==
  \A p, q \in Callers : p # q => ~(pmu[p] /\ pmu[q])

\* C6: a delivery whose body fails decryption never reaches the handler, a
\* delivery whose handler returned an error is not invoked again, neither
\* triggers a restart, and the task can go on with the next delivery.
C6_FailedDeliverySkipContinues ==
  /\ \A i \in DOMAIN handled : ~DecryptErr(msgs[handled[i].id].body)
  /\ \A i, j \in DOMAIN handled : handled[i].id = handled[j].id => i = j
  /\ \A g \in Gens :
       lastLog[g] \in {"decryptfail", "failed"} =>
         /\ tpc[g] \notin {"sleep", "relisten", "dead"}
         /\ ~SelfBlocked(g)

\* C7: a delivery has left the broker's queue (it is acknowledged) as soon as
\* a subscription holds it, so before its handler runs; no delivery is handed
\* to a handler twice, whatever errors, panics and restarts happen.
C7_AtMostOnce ==
  /\ \A i, j \in DOMAIN handled : handled[i].id = handled[j].id => i = j
  /\ \A m \in Arrived :
       ((\E g \in Gens : InStream(m, g) \/ cur[g] = m)
          \/ (\E i \in DOMAIN handled : handled[i].id = m))
       => (\A k \in DOMAIN queue : queue[k] # m)
  /\ \A m \in Arrived : \A g, h \in Gens :
       (InStream(m, g) /\ (InStream(m, h) \/ cur[h] = m)) => g = h /\ cur[h] # m

\* After a panic and the restart, the new task has invoked a handler, and
\* another delivery was handled before.
C7_Witness ==
  /\ lastLog[1] = "panic"
  /\ Len(handled) >= 2
  /\ \E i \in DOMAIN handled : handled[i].gen = 2

\* C8: when a handler panics only the in-flight message is lost: no other
\* message is left in the stream of the task that panicked, where nothing
\* takes it any more.
C8_OnlyInFlightLost ==
  \A g \in Gens : tpc[g] \in {"sleep", "relisten", "dead"} => stream[g] = <<>>

C10_CloseOrder ==
  /\ connClose # "untried" => chanClose = "ok"
  /\ chanClose = "err" => fatal /\ connClose = "untried"
  /\ connClose = "err" => fatal

\* The channel was closed and the connection close failed.
C10_Witness == chanClose = "ok" /\ connClose = "err"

\* C11: once Close has closed the channel, no consuming task attempts a
\* recovery: none enters the rejoin sleep, none calls Listen again, no
\* restarted invocation takes a declaration step, and no restarted invocation
\* starts a consuming task.
C11_NoRecoveryAfterClose ==
  [][chanClose = "ok" =>
       \A g \in Gens :
         /\ tpc'[g] = "sleep" => tpc[g] = "sleep"
         /\ tpc'[g] = "relisten" => tpc[g] = "relisten"
         /\ parent'[g] # 0 => (parent[g] # 0 /\ lpc'[g] = lpc[g])]_vars

\* C12 as stated: after a second Listen call with registry R2, every restart
\* (every later invocation, also the restart of the R1 task) uses R2.
C12_RestartsUseNewRegistry ==
  \A a \in AppCalls \ {1} : \A g \in Gens :
    (g > a /\ lpc[g] # "none") => consumers[g] = consumers[a]

\* C12 as amended: every task dispatches with the registry of its own Listen
\* invocation, and a restart uses the registry of the task that panicked.
C12_RestartKeepsOwnRegistry ==
  /\ \A i \in DOMAIN handled :
       msgs[handled[i].id].topic \in consumers[handled[i].gen]
  /\ \A g \in Gens :
       (lpc[g] # "none" /\ parent[g] # 0) => consumers[g] = consumers[parent[g]]

\* The task of the first call was restarted after the second call, and the
\* new task has been started.
C12_Witness ==
  \E a \in AppCalls \ {1} : \E g \in Gens :
    g > a /\ parent[g] = 1 /\ tpc[g] # "none"

\* The process was terminated by a declaration error or by a Close error.
FatalCause ==
  \/ \E g \in Gens : \E step \in declErr[g] : IsFatal(step)
  \/ chanClose = "err"
  \/ connClose = "err"

\* C17: after a handler panicked on delivery X the task has logged X's id and
\* topic; it has slept the configured rejoin delay, or 5 when none is
\* configured, before Listen is called again; the new invocation has the
\* registry of the task; a new task runs only after one QueueBind per topic of
\* that registry; and the process is terminated only by a declaration or Close
\* error, never by the panic.
C17_RecoveryOrder ==
  /\ fatal => FatalCause
  /\ \A g \in Gens :
       /\ tpc[g] \in {"sleep", "relisten", "dead"} =>
            /\ cur[g] # 0
            /\ panicLog[g] = [topic |-> msgs[cur[g]].topic, id |-> cur[g]]
            /\ \E i \in DOMAIN handled : handled[i] = [id |-> cur[g], gen |-> g]
       /\ tpc[g] = "sleep" => slept[g] = 0 /\ \A h \in Gens : parent[h] # g
       /\ tpc[g] \in {"relisten", "dead"} =>
            slept[g] = IF rejoinDelay > 0 THEN rejoinDelay ELSE DefaultRejoin
       /\ (parent[g] # 0 /\ lpc[g] # "none") =>
            /\ tpc[parent[g]] \in {"relisten", "dead"}
            /\ consumers[g] = consumers[parent[g]]
            /\ bound[g] \subseteq consumers[g]
            /\ tpc[g] # "none" =>
                 lpc[g] = "returned" /\ bound[g] = consumers[parent[g]]
            /\ tpc[g] = "none" <=> tpc[parent[g]] = "relisten"

\* A task panicked with a configured rejoin delay, and the invocation it made
\* has started the new task.
C17_Witness ==
  \E g, h \in Gens :
    /\ parent[h] = g /\ tpc[h] = "recv"
    /\ rejoinDelay > 0 /\ slept[g] = rejoinDelay
    /\ consumers[g] = {"orders", "payments"}

\* C18: the handler invocations of one task are in the order in which its
\* stream yields the deliveries, the order of arrival; a running handler
\* works on the delivery the task took last, it is the task's latest
\* invocation, and what the stream still holds arrived after that delivery.
C18_InOrderOneAtATime ==
  /\ \A i, j \in DOMAIN handled :
       (i < j /\ handled[i].gen = handled[j].gen) => handled[i].id < handled[j].id
  /\ \A g \in Gens :
       tpc[g] = "handler" =>
         /\ \E i \in DOMAIN handled :
              /\ handled[i] = [id |-> cur[g], gen |-> g]
              /\ \A j \in DOMAIN handled : handled[j].gen = g => j <= i
         /\ \A k \in 1..Len(stream[g]) : stream[g][k] > cur[g]

\* One task has handled two deliveries, the second still in its handler while
\* nothing is taken from the stream.
C18_Witness ==
  \E i, j \in DOMAIN handled :
    /\ i < j /\ handled[i].gen = handled[j].gen
    /\ tpc[handled[j].gen] = "handler"

\* C14: Publish uses 1 attempt and a delay of 1 when the option is nil, and
\* falls back to these defaults field by field when the supplied value is not
\* positive, also when Retries was built by NewRetries from zero or from a
\* negative int.
C14_DefaultsForNonPositive ==
  \A p \in Callers :
    ppc[p] # "idle" =>
      /\ option[p].nil => retries[p] = 1 /\ delay[p] = 1
      /\ ~option[p].nil =>
           /\ retries[p] = IF option[p].Arg > 0 THEN option[p].Arg ELSE 1
           /\ delay[p] =
                IF option[p].DelayRetries > 0 THEN option[p].DelayRetries ELSE 1

\* C19: all transport sends of one Publish call carry the one id generated at
\* the start of the call, and the sends of two calls carry different ids.
C19_OneIdPerCall ==
  /\ \A p \in Callers : sentIds[p] \subseteq {uid[p]}
  /\ \A p, q \in Callers :
       (p # q /\ ppc[p] # "idle" /\ ppc[q] # "idle") =>
         uid[p] # uid[q] /\ sentIds[p] \cap sentIds[q] = {}

\* One call has made three sends and another call has made a send.
C19_Witness ==
  \E p, q \in Callers :
    p # q /\ sends[p] >= 3 /\ sentIds[p] # {} /\ sentIds[q] # {}

\* C20: when the encryption fails, no attempt of the call sends anything, the
\* call makes at most its maximum number of attempts, and it has made exactly
\* that number when it returns.
C20_EncryptFailureCountsAttempt ==
  \A p \in Callers :
    EncryptErr =>
      /\ sends[p] = 0
      /\ attempts[p] <= retries[p]
      /\ ppc[p] = "done" => attempts[p] = retries[p]

\* C13: with a secret whose length is not 24 the construction makes no
\* connection attempt and returns no client, and the cipher of every client
\* that is returned holds a secret of 24 characters.
C13_SecretLengthChecked ==
  /\ StrLen(conf.Secret) # SecretLen => ~dialed /\ npc # "returned"
  /\ npc = "returned" => secretLen = SecretLen

\* One instance with an AES key as its secret encrypted the payload and
\* decrypted the result.
RoundTrip(i) ==
  /\ enc.by = i /\ dec.by = i
  /\ ~NewCipherErr(ciph[i].len)

\* C15: a cipher instance decrypts what it encrypted to the payload itself,
\* without error, whatever the payload.
C15_RoundTrip ==
  \A i \in Insts :
    RoundTrip(i) => ~enc.err /\ ~dec.err /\ dec.val = plain

\* An instance has made the round trip of a payload that is longer than one
\* base64 group and ends in a partial cipher block and a partial group.
C15_Witness ==
  \E i \in Insts :
    RoundTrip(i) /\ Len(plain) = MaxLen /\ Len(enc.val) > MaxLen /\ dec.val = plain

\* Instance j, whose secret is another AES key, decrypted what instance i
\* encrypted.
WrongSecret(i, j) ==
  /\ enc.by = i /\ dec.by = j
  /\ ~NewCipherErr(ciph[i].len) /\ ~NewCipherErr(ciph[j].len)
  /\ <<ciph[i].len, ciph[i].key>> # <<ciph[j].len, ciph[j].key>>

\* C16 as stated: decrypting under a different secret gives no error and a
\* value that differs from the payload, whatever the payload.
C16_WrongSecretDiffers ==
  \A i, j \in Insts :
    WrongSecret(i, j) => ~dec.err /\ dec.val # plain

\* The byte that decryption under instance j makes of byte n of the payload
\* that instance i encrypted: the ciphertext byte of i, xored with the key
\* stream byte of j, which j computes from its own block (first cipher block)
\* or from the preceding ciphertext block.
Garbled(i, j, n) ==
  LET cipherText == XORKeyStream(ciph[i].key, ciph[i].size, plain, FALSE)
      before == (n - 1) \div BlockSize
      prev == IF before = 0 THEN ciph[j].size
              ELSE SubSeq(cipherText, (before - 1) * BlockSize + 1, before * BlockSize)
      ksj == BlockEncrypt(ciph[j].key, prev)[((n - 1) % BlockSize) + 1]
  IN Xor(cipherText[n], ksj)

\* C16 as amended: decrypting under a different secret gives no error and a
\* value as long as the payload, the empty value for the empty payload; each
\* of its bytes is the ciphertext byte xored with the key stream of the
\* decrypting instance.
C16_WrongSecretNoError ==
  \A i, j \in Insts :
    WrongSecret(i, j) =>
      /\ ~enc.err /\ ~dec.err
      /\ Len(dec.val) = Len(plain)
      /\ plain = <<>> => dec.val = plain
      /\ \A n \in 1..Len(plain) : dec.val[n] = Garbled(i, j, n)

\* A payload of full length was decrypted under another secret to a value
\* that differs from it.
C16_Witness ==
  \E i, j \in Insts :
    WrongSecret(i, j) /\ Len(plain) = MaxLen /\ ~dec.err /\ dec.val # plain

\* C22: the attempt counter of a Publish call never wraps and the call never
\* makes more attempts than its maximum, whatever the maximum is, so the call
\* ends after finitely many attempts.
C22_AttemptsBounded ==
  \A p \in Callers :
    ppc[p] # "idle" => try[p] >= 1 /\ attempts[p] <= retries[p]

\* The consuming tasks that can still take a delivery.
Live == {g \in Gens : tpc[g] \in {"recv", "lock", "route", "handler"}}

\* C23: after one Listen call at most one consuming task is alive and at most
\* one handler is executing, whatever the number of recoveries, and a task
\* that panicked has dispatched nothing after the delivery it panicked on.
C23_OneHandlerAtATime ==
  /\ Cardinality(Live) <= 1
  /\ Cardinality({g \in Gens : tpc[g] = "handler"}) <= 1
  /\ \A g \in Gens :
       lastLog[g] = "panic" =>
         /\ g \notin Live
         /\ \A i \in DOMAIN handled :
              handled[i].gen = g => handled[i].id <= panicLog[g].id

\* A recovery has happened, the task that panicked has ended, and the task
\* of the new invocation is in a handler.
C23_Witness ==
  \E g \in Gens :
    /\ tpc[g] = "handler" /\ parent[g] # 0
    /\ lastLog[parent[g]] = "panic" /\ tpc[parent[g]] = "dead"

\* C24: an instance decrypts what another instance with the same secret
\* encrypted to the payload itself, without error.
C24_SameSecretInteroperates ==
  \A i, j \in Insts :
    ( /\ i # j /\ enc.by = i /\ dec.by = j
      /\ ~NewCipherErr(ciph[i].len)
      /\ <<ciph[i].len, ciph[i].key>> = <<ciph[j].len, ciph[j].key>> ) =>
      ~dec.err /\ dec.val = plain

\* C21: the cancellation of the caller's ctx does not end the retry loop: a
\* call returns only after a success or with its attempt counter above the
\* maximum, having made every attempt; and after a failed send it sleeps the
\* whole delay before it goes on, cancelled or not.
C21_CancelKeepsRetrying ==
  \A p \in Callers :
    /\ ppc[p] = "done" => success[p] \/ try[p] > retries[p]
    /\ (ppc[p] = "done" /\ ~success[p]) => attempts[p] >= retries[p]
    /\ (cancelAt[p] # 0 /\ ppc[p] = "unlock" /\ ~success[p]) => gap[p] = delay[p]

\* A call was cancelled, made two more sends after that, the first of them
\* failing, and returned after the success of the last.
C21_Witness ==
  \E p \in Callers :
    /\ cancelAt[p] # 0 /\ sends[p] > cancelAt[p]
    /\ ppc[p] = "done" /\ success[p]

=============================================================================
